---- MODULE Spec2Model ----
(***************************************************************************)
(* Model of the git-tasks exercise harness (src/.task.py).                  *)
(*                                                                         *)
(* The repository (the History Provider, git) is the state: a commit graph, *)
(* the references, the checked-out branch and the working copy.  The       *)
(* helpers of the harness (commit_log, commit_show, the check_* functions) *)
(* are operators over that state that go through the same text plumbing as *)
(* the code: git prints one record per line, the code strips the output    *)
(* and splits it on newlines.                                              *)
(*                                                                         *)
(* Text is a sequence of one-character strings.  A commit identifier is    *)
(* modelled by a one-digit text (a real one has 40 hex digits: non-empty,  *)
(* no whitespace).  Summaries are whitespace-trimmed subject lines and may *)
(* be empty (git commit --allow-empty-message).                            *)
(***************************************************************************)
EXTENDS Integers, Sequences, FiniteSets, TLC

VARIABLES
    commits,    \* the object store: commits[c] = [parents, summary], c = creation order
                \* (and tree, where content is modelled)
    refs,       \* reference name -> commit; a name outside DOMAIN refs does not exist
    HEAD,       \* the branch that is checked out
    dirty,      \* TRUE when the working copy has local modifications
                \* (path -> status code, where the status is modelled)
    pc,         \* where the running invocation of the harness is; "idle" between runs
    task,       \* the task name the invocation was given
    command,    \* the command the invocation was given
    branch_pos, \* reset_branches: position of the loop in branch_names
    out,        \* what the invocation has printed to standard output
    err,        \* what the invocation has printed to standard error
    trace,      \* the git calls and checker statements the invocation has run, in order
    exitcode,   \* exit code of the last invocation; NoExit while none has ended
    result      \* the last helper call of the harness: its arguments and what it returned

repo == <<commits, refs, HEAD, dirty>>
harness == <<pc, task, command, branch_pos, out, err, trace, exitcode>>
vars == <<commits, refs, HEAD, dirty, pc, task, command, branch_pos, out, err, trace, exitcode,
          result>>

----------------------------------------------------------------------------
(* Bounds *)

MaxCommits == 3     \* commits in a drawn history
MaxExpected == 2    \* length of an expected-summaries list / largest skip
MaxLearnerCommits == 1  \* commits the learner adds between invocations

----------------------------------------------------------------------------
(* Text *)

FORMAT_HASH == "%H"
FORMAT_SUMMARY == "%s"

NL == "\n"
Whitespace == {" ", "\n", "\t"}

HexDigit == <<"1", "2", "3", "4", "5", "6", "7", "8", "9">>

\* The summaries a drawn commit can have.
Summaries == {<<>>, <<"a">>, <<"b">>}

\* str.strip(): drop leading and trailing whitespace.
RECURSIVE lstrip(_)
lstrip(t) ==
    IF t = <<>> THEN t
    ELSE IF Head(t) \in Whitespace THEN lstrip(Tail(t)) ELSE t

RECURSIVE rstrip(_)
rstrip(t) ==
    IF t = <<>> THEN t
    ELSE IF t[Len(t)] \in Whitespace THEN rstrip(SubSeq(t, 1, Len(t) - 1)) ELSE t

strip(t) == rstrip(lstrip(t))

\* str.split(sep): always at least one field; ''.split('\n') is [''].
RECURSIVE split(_, _)
split(t, sep) ==
    IF \E i \in 1..Len(t) : t[i] = sep
    THEN LET i == CHOOSE j \in 1..Len(t) : t[j] = sep /\ \A k \in 1..(j - 1) : t[k] # sep
         IN  <<SubSeq(t, 1, i - 1)>> \o split(SubSeq(t, i + 1, Len(t)), sep)
    ELSE <<t>>

\* list[skip:]
slice_from(l, skip) == SubSeq(l, skip + 1, Len(l))

\* x in list
contains(l, x) == \E i \in 1..Len(l) : l[i] = x

----------------------------------------------------------------------------
(* The History Provider: git *)

BASELINE == "origin/tasks"

CommitIds == 1..Len(commits)

hexsha(c) == <<HexDigit[c]>>

RECURSIVE Reachable(_)
\* The commits reachable from the commits of cs (cs included).
Reachable(cs) ==
    LET ps == UNION {commits[c].parents : c \in cs}
    IN  IF ps \subseteq cs THEN cs ELSE Reachable(cs \cup ps)

RECURSIVE NewestFirst(_)
\* git log lists newest first; commits are numbered in creation order.
NewestFirst(cs) ==
    IF cs = {} THEN <<>>
    ELSE LET c == CHOOSE x \in cs : \A y \in cs : y <= x
         IN  <<c>> \o NewestFirst(cs \ {c})

\* git rev-list base..tip
rev_list(base, tip) == NewestFirst(Reachable({refs[tip]}) \ Reachable({refs[base]}))

pretty(c, pretty_format) ==
    IF pretty_format = FORMAT_HASH THEN hexsha(c) ELSE commits[c].summary

RECURSIVE print_log(_, _)
\* stdout of git log --pretty=<format>: one record per commit, each ended by a newline.
print_log(cs, pretty_format) ==
    IF cs = <<>> THEN <<>>
    ELSE pretty(Head(cs), pretty_format) \o <<NL>> \o print_log(Tail(cs), pretty_format)

\* git commit -m <summary>: a new commit on top of the checked-out branch.
git_commit(summary) ==
    [commits |-> Append(commits, [parents |-> {refs[HEAD]}, summary |-> summary]),
     refs |-> [refs EXCEPT ![HEAD] = Len(commits) + 1]]

\* The commits a full hash names; none for a text that is no hash of the store
\* (git show then fails: "ambiguous argument '': unknown revision").
resolve(hash) == {c \in CommitIds : hexsha(c) = hash}

----------------------------------------------------------------------------
(* What a call returns: a value, or the exception it raised.               *)
(*   exc      "" | "TaskCheckException" | "CalledProcessError" | another    *)
(*            exception of python                                           *)
(*   msg      which message a TaskCheckException carries                    *)
(*   summary  the summary the message names                                 *)
(*   diff, quantifier   the numbers of the commits-count message            *)
(*   val      the returned list or text                                     *)
(*   shown    the revisions handed to commit_show, in call order            *)

NoDiff == 0 - 1

Ret(exc, msg, summary, diff, quantifier, val, shown) ==
    [exc |-> exc, msg |-> msg, summary |-> summary, diff |-> diff,
     quantifier |-> quantifier, val |-> val, shown |-> shown]

Return(val) == Ret("", "", <<>>, NoDiff, "", val, <<>>)
CalledProcessError == Ret("CalledProcessError", "", <<>>, NoDiff, "", <<>>, <<>>)
TaskCheckException(msg, summary, shown) ==
    Ret("TaskCheckException", msg, summary, NoDiff, "", <<>>, shown)
\* list[i] of a position the list does not have
IndexError == Ret("IndexError", "", <<>>, NoDiff, "", <<>>, <<>>)

MSG_MISSING == "A commit is missing"
MSG_MODIFIED == "A commit was unexpectedly modified"
MSG_COUNT == "Unexpected number of commits in branch"
MSG_SUMMARIES == "Unexpected commits in the branch"
MSG_CHANGED == "The branch changed"

----------------------------------------------------------------------------
(* The helpers of the harness *)

\* commit_log without the baseline bound: git log --pretty=<format> <branch_name>.
commit_log_unbounded(branch_name, pretty_format) ==
    IF branch_name \notin DOMAIN refs \/ BASELINE \notin DOMAIN refs
    THEN CalledProcessError
    ELSE Return(split(strip(print_log(NewestFirst(Reachable({refs[branch_name]})),
                                     pretty_format)), NL))

\* git log --pretty=<format> origin/tasks..<branch_name>, check=True
commit_log(branch_name, pretty_format) ==
    IF branch_name \notin DOMAIN refs \/ BASELINE \notin DOMAIN refs
    THEN CalledProcessError
    ELSE Return(split(strip(print_log(rev_list(BASELINE, branch_name), pretty_format)), NL))

\* git show --pretty=<format> -s <commit>, check=True
commit_show(commit, pretty_format) ==
    IF resolve(commit) = {}
    THEN CalledProcessError
    ELSE Return(strip(pretty(CHOOSE c \in resolve(commit) : TRUE, pretty_format)))

RECURSIVE old_commits_loop_summary_ok(_, _, _, _)
\* The loop if a revision whose summary is found in the new branch were let through.
old_commits_loop_summary_ok(old_hexshas, i, new_hexshas, new_summaries) ==
    IF i > Len(old_hexshas) THEN Return(<<>>)
    ELSE IF contains(new_hexshas, old_hexshas[i])
    THEN old_commits_loop_summary_ok(old_hexshas, i + 1, new_hexshas, new_summaries)
    ELSE LET shown == commit_show(old_hexshas[i], FORMAT_SUMMARY)
         IN  IF shown.exc # ""
             THEN [shown EXCEPT !.shown = <<old_hexshas[i]>>]
             ELSE IF ~contains(new_summaries, shown.val)
             THEN TaskCheckException(MSG_MISSING, shown.val, <<old_hexshas[i]>>)
             ELSE old_commits_loop_summary_ok(old_hexshas, i + 1, new_hexshas, new_summaries)

RECURSIVE old_commits_loop_oldest_first(_, _, _, _)
\* The loop if it walked the old list from its end (oldest revision first).
old_commits_loop_oldest_first(old_hexshas, i, new_hexshas, new_summaries) ==
    LET j == Len(old_hexshas) + 1 - i
    IN  IF i > Len(old_hexshas) THEN Return(<<>>)
        ELSE IF contains(new_hexshas, old_hexshas[j])
        THEN old_commits_loop_oldest_first(old_hexshas, i + 1, new_hexshas, new_summaries)
        ELSE LET shown == commit_show(old_hexshas[j], FORMAT_SUMMARY)
             IN  IF shown.exc # ""
                 THEN [shown EXCEPT !.shown = <<old_hexshas[j]>>]
                 ELSE IF ~contains(new_summaries, shown.val)
                 THEN TaskCheckException(MSG_MISSING, shown.val, <<old_hexshas[j]>>)
                 ELSE TaskCheckException(MSG_MODIFIED, shown.val, <<old_hexshas[j]>>)

\* The for loop of check_old_commits_unchanged from position i of the old list on.
RECURSIVE old_commits_loop(_, _, _, _)
old_commits_loop(old_hexshas, i, new_hexshas, new_summaries) ==
    IF i > Len(old_hexshas) THEN Return(<<>>)
    ELSE IF contains(new_hexshas, old_hexshas[i])
    THEN old_commits_loop(old_hexshas, i + 1, new_hexshas, new_summaries)
    ELSE LET shown == commit_show(old_hexshas[i], FORMAT_SUMMARY)
         IN  IF shown.exc # ""
             THEN [shown EXCEPT !.shown = <<old_hexshas[i]>>]
             ELSE IF ~contains(new_summaries, shown.val)
             THEN TaskCheckException(MSG_MISSING, shown.val, <<old_hexshas[i]>>)
             ELSE TaskCheckException(MSG_MODIFIED, shown.val, <<old_hexshas[i]>>)

check_branches_identical(old_branch, new_branch) ==
    LET old_log == commit_log(old_branch, FORMAT_HASH)
        new_log == commit_log(new_branch, FORMAT_HASH)
    IN  IF old_log.exc # "" THEN old_log
        ELSE IF new_log.exc # "" THEN new_log
        ELSE IF old_log.val # new_log.val
        THEN TaskCheckException(MSG_CHANGED, <<>>, <<>>)
        ELSE Return(<<>>)

\* check_old_commits_unchanged with the two branches in each other's place.
check_old_commits_unchanged_swapped(old_branch, new_branch) ==
    LET new_hexshas == commit_log(old_branch, FORMAT_HASH)
        new_summaries == commit_log(old_branch, FORMAT_SUMMARY)
        old_hexshas == commit_log(new_branch, FORMAT_HASH)
    IN  IF new_hexshas.exc # "" THEN new_hexshas
        ELSE IF new_summaries.exc # "" THEN new_summaries
        ELSE IF old_hexshas.exc # "" THEN old_hexshas
        ELSE old_commits_loop(old_hexshas.val, 1, new_hexshas.val, new_summaries.val)

check_old_commits_unchanged(old_branch, new_branch) ==
    LET new_hexshas == commit_log(new_branch, FORMAT_HASH)
        new_summaries == commit_log(new_branch, FORMAT_SUMMARY)
        old_hexshas == commit_log(old_branch, FORMAT_HASH)
    IN  IF new_hexshas.exc # "" THEN new_hexshas
        ELSE IF new_summaries.exc # "" THEN new_summaries
        ELSE IF old_hexshas.exc # "" THEN old_hexshas
        ELSE old_commits_loop(old_hexshas.val, 1, new_hexshas.val, new_summaries.val)

abs(x) == IF x < 0 THEN 0 - x ELSE x

check_commits_count(branch, expected_commits_count) ==
    LET log == commit_log(branch, FORMAT_HASH)
        commits_count == Len(log.val)
        diff == abs(commits_count - expected_commits_count)
    IN  IF log.exc # "" THEN log
        ELSE IF commits_count > expected_commits_count
        THEN Ret("TaskCheckException", MSG_COUNT, <<>>, diff, "more", <<>>, <<>>)
        ELSE IF commits_count < expected_commits_count
        THEN Ret("TaskCheckException", MSG_COUNT, <<>>, diff, "less", <<>>, <<>>)
        ELSE Return(<<>>)

\* check_summaries if it compared only the positions both lists have.
check_summaries_common_part(branch, expected, skip) ==
    LET actual == commit_log(branch, FORMAT_SUMMARY)
    IN  IF actual.exc # "" THEN actual
        ELSE IF \E i \in (skip + 1)..Len(expected) :
                    i <= Len(actual.val) /\ actual.val[i] # expected[i]
        THEN Ret("TaskCheckException", MSG_SUMMARIES, <<>>, NoDiff, "", expected, <<>>)
        ELSE Return(<<>>)

check_summaries(branch, expected, skip) ==
    LET actual == commit_log(branch, FORMAT_SUMMARY)
    IN  IF actual.exc # "" THEN actual
        ELSE IF slice_from(actual.val, skip) # slice_from(expected, skip)
        THEN Ret("TaskCheckException", MSG_SUMMARIES, <<>>, NoDiff, "", expected, <<>>)
        ELSE Return(<<>>)

----------------------------------------------------------------------------
(* The histories the checkers are applied to.  A run is one call of one     *)
(* helper on a drawn repository (each helper is a function of the current  *)
(* repository state), possibly after the learner has committed.            *)

OLD_BRANCH == "origin/rebase-main"
NEW_BRANCH == "rebase-feature"
CheckRefs == {BASELINE, OLD_BRANCH, NEW_BRANCH}

\* A commit has no parent (a root), one parent, or two (a merge).
ParentSets(k) == {p \in SUBSET (1..k) : Cardinality(p) <= 2}

RECURSIVE Histories(_)
\* Every commit graph of n commits, numbered in creation order.
Histories(n) ==
    IF n = 0 THEN {<<>>}
    ELSE {Append(h, [parents |-> p, summary |-> s]) :
            h \in Histories(n - 1), p \in ParentSets(n - 1), s \in Summaries}

NoCall ==
    [op |-> "", branch |-> "", old |-> "", format |-> "", count |-> 0,
     expected |-> <<>>, skip |-> 0, ret |-> Return(<<>>)]

NoExit == 0 - 1

\* No invocation of the harness is running and none has run.
HarnessIdle ==
    /\ pc = "idle"
    /\ task = ""
    /\ command = ""
    /\ branch_pos = 0
    /\ out = <<>>
    /\ err = <<>>
    /\ trace = <<>>
    /\ exitcode = NoExit

InitCheck ==
    /\ commits \in UNION {Histories(n) : n \in 1..MaxCommits}
    /\ refs \in [CheckRefs -> 1..Len(commits)]
    /\ Reachable({refs[r] : r \in CheckRefs}) = 1..Len(commits)
    /\ HEAD = NEW_BRANCH
    /\ dirty = FALSE
    /\ HarnessIdle
    /\ result = NoCall

RECURSIVE SeqsUpTo(_, _)
\* The sequences over S of length at most n.
SeqsUpTo(S, n) ==
    IF n = 0 THEN {<<>>}
    ELSE LET shorter == SeqsUpTo(S, n - 1)
         IN  shorter \cup {Append(q, x) : q \in shorter, x \in S}

\* The summaries a lesson expects are the non-empty ones.
ExpectedSummaries == SeqsUpTo(Summaries \ {<<>>}, MaxExpected)

Call(op, branch, old, format, count, expected, skip, ret) ==
    [op |-> op, branch |-> branch, old |-> old, format |-> format, count |-> count,
     expected |-> expected, skip |-> skip, ret |-> ret]

CallCommitLog(branch, format) ==
    /\ result = NoCall
    /\ result' = Call("commit_log", branch, "", format, 0, <<>>, 0, commit_log(branch, format))
    /\ UNCHANGED <<repo, harness>>

CallCheckCommitsCount(branch, n) ==
    /\ result = NoCall
    /\ result' = Call("check_commits_count", branch, "", "", n, <<>>, 0,
                      check_commits_count(branch, n))
    /\ UNCHANGED <<repo, harness>>

CallCheckSummaries(branch, expected, skip) ==
    /\ result = NoCall
    /\ result' = Call("check_summaries", branch, "", "", 0, expected, skip,
                      check_summaries(branch, expected, skip))
    /\ UNCHANGED <<repo, harness>>

CallCheckOldCommitsUnchanged(old, new) ==
    /\ result = NoCall
    /\ result' = Call("check_old_commits_unchanged", new, old, "", 0, <<>>, 0,
                      check_old_commits_unchanged(old, new))
    /\ UNCHANGED <<repo, harness>>

\* The learner commits on top of the new branch, which is checked out.  The
\* step keeps, as ret, what check_old_commits_unchanged returned before the commit.
LearnerPrepends(summary) ==
    /\ result = NoCall
    /\ Len(commits) < MaxCommits
    /\ commits' = git_commit(summary).commits
    /\ refs' = git_commit(summary).refs
    /\ result' = Call("learner_commit", NEW_BRANCH, OLD_BRANCH, "", 0, <<>>, 0,
                      check_old_commits_unchanged(OLD_BRANCH, NEW_BRANCH))
    /\ UNCHANGED <<HEAD, dirty, harness>>

NextCheck ==
    \/ \E b \in CheckRefs, f \in {FORMAT_HASH, FORMAT_SUMMARY} : CallCommitLog(b, f)
    \/ \E n \in 0..(MaxCommits + 1) : CallCheckCommitsCount(NEW_BRANCH, n)
    \/ CallCheckOldCommitsUnchanged(OLD_BRANCH, NEW_BRANCH)
    \/ \E s \in Summaries : LearnerPrepends(s)

SpecCheck == InitCheck /\ [][NextCheck]_vars

\* check_summaries reads one branch: the histories drawn for it are those of
\* the baseline and that branch.
InitSummaries ==
    /\ InitCheck
    /\ refs[OLD_BRANCH] = refs[BASELINE]

NextSummaries ==
    \/ \E e \in ExpectedSummaries, k \in 0..MaxExpected :
            k <= Len(e) /\ CallCheckSummaries(NEW_BRANCH, e, k)
    \/ \E s \in Summaries : LearnerPrepends(s)

SpecSummaries == InitSummaries /\ [][NextSummaries]_vars

----------------------------------------------------------------------------
(* The task lifecycle: main() runs one command of one task.                 *)

\* Task.branch_names of the tasks of the catalog that are modelled: one with two
\* branches, and one whose check switches the branch.
branch_names ==
    [t \in {"rebase", "conflict-revert"} |->
        IF t = "rebase" THEN <<"rebase-main", "rebase-feature">>
        ELSE <<"conflict-revert-main">>]

\* The keys of task_classes.
TaskNames == DOMAIN branch_names

\* choices of the command argument
COMMANDS == {"start", "check"}

\* A command line: no argument at all, or a task name and a command, either of
\* which may be one the harness does not know.
NoArg == ""
Argv ==
    (TaskNames \X COMMANDS)
        \cup {<<NoArg, NoArg>>, <<"no-such-task", "check">>, <<"rebase", "status">>}

MAIN == "main"

origin(branch_name) == "origin/" \o branch_name

TrackedBranches == UNION {{branch_names[t][k] : k \in 1..Len(branch_names[t])} : t \in TaskNames}
LocalBranches == {MAIN} \cup TrackedBranches

\* The remote as cloned: the baseline, and each origin branch on top of it.
FixtureCommits ==
    <<[parents |-> {}, summary |-> <<"a">>],
      [parents |-> {1}, summary |-> <<"a">>],
      [parents |-> {1}, summary |-> <<"b">>]>>

FixtureRefs ==
    [r \in {BASELINE, MAIN, origin("rebase-main"), origin("rebase-feature"),
            origin("conflict-revert-main")} |->
        CASE r = origin("rebase-main") -> 2
          [] r = origin("rebase-feature") -> 3
          [] r = origin("conflict-revert-main") -> 3
          [] OTHER -> 1]

Remove(f, name) == [r \in DOMAIN f \ {name} |-> f[r]]
Put(f, name, c) == [r \in DOMAIN f \cup {name} |-> IF r = name THEN c ELSE f[r]]

Init ==
    /\ commits = FixtureCommits
    /\ refs = FixtureRefs
    /\ HEAD = MAIN
    /\ dirty = FALSE
    /\ HarnessIdle
    /\ result = NoCall

(* The learner, between two invocations *)

LearnerCheckout(branch) ==
    /\ pc = "idle"
    /\ branch \in DOMAIN refs
    /\ ~dirty
    /\ HEAD' = branch
    /\ UNCHANGED <<commits, refs, dirty, harness>>
    /\ result' = NoCall

LearnerEdit ==
    /\ pc = "idle"
    /\ ~dirty
    /\ dirty' = TRUE
    /\ UNCHANGED <<commits, refs, HEAD, harness>>
    /\ result' = NoCall

LearnerCommit(summary) ==
    /\ pc = "idle"
    /\ Len(commits) < Len(FixtureCommits) + MaxLearnerCommits
    /\ commits' = git_commit(summary).commits
    /\ refs' = git_commit(summary).refs
    /\ dirty' = FALSE
    /\ UNCHANGED <<HEAD, harness>>
    /\ result' = NoCall

\* git branch -D <branch>
LearnerDeleteBranch(branch) ==
    /\ pc = "idle"
    /\ branch \in DOMAIN refs
    /\ branch # HEAD
    /\ refs' = Remove(refs, branch)
    /\ UNCHANGED <<commits, HEAD, dirty, harness>>
    /\ result' = NoCall

\* git branch -f <branch> <commit>, or git reset --hard <commit> on the
\* checked-out branch.  The learner's work is on the task branches: main is only
\* ever put back where the remote has it.
LearnerMoveBranch(branch, c) ==
    /\ pc = "idle"
    /\ branch \in DOMAIN refs => refs[branch] # c
    /\ branch = MAIN => c = FixtureRefs[MAIN]
    /\ refs' = Put(refs, branch, c)
    /\ dirty' = IF branch = HEAD THEN FALSE ELSE dirty
    /\ UNCHANGED <<commits, HEAD, harness>>
    /\ result' = NoCall

\* What is kept of a run of start until the learner next touches the repository:
\* the task, the repository as reset_branches left it, and the exit code.
Ran(taskname, rs, head, wc, code) ==
    [op |-> "reset_branches", task |-> taskname, refs |-> rs, HEAD |-> head,
     dirty |-> wc, exitcode |-> code]

(* What an invocation has run *)

\* A call of git: whether it returned a non-zero status, and the exception that
\* status was turned into ("" when the status was not looked at or was zero).
GitCall(name, failed, raised) ==
    [kind |-> "git", name |-> name, failed |-> failed, raised |-> raised]

\* A statement of a check method and the exception it raised.
Statement(name, raised) ==
    [kind |-> "check", name |-> name, failed |-> raised # "", raised |-> raised]

USAGE == "usage: .task.py [-h] taskname {start,check}"
INVALID_CHOICE == "error: argument command: invalid choice"
TRACEBACK == "Traceback (most recent call last)"
MSG_NOT_FOUND == "Task not found"
CHECK_FAILED == "CHECK FAILED: "
OK == "OK"

(* main *)

\* except TaskException as e: print(e); sys.exit(1)
Caught(msg) ==
    /\ pc' = "exited"
    /\ out' = Append(out, msg)
    /\ exitcode' = 1
    /\ UNCHANGED <<task, command, branch_pos, err>>

\* An exception that is no TaskException ends the process with a traceback on
\* standard error and exit code 1.
Uncaught ==
    /\ pc' = "exited"
    /\ err' = Append(err, TRACEBACK)
    /\ exitcode' = 1
    /\ UNCHANGED <<task, command, branch_pos, out>>

\* start going straight to its print, with no reset_branches before it.
entry_print_first(cmd) == IF cmd = "start" THEN "print_task" ELSE "check"

\* Every method beginning with self.reset_branches().
entry_reset_first(cmd) == "reset_hard"

\* Where the method of a command begins: start with self.reset_branches(), check
\* with its first statement.
entry(cmd) == IF cmd = "start" THEN "reset_hard" ELSE "check"

\* python3 .task.py <taskname> <cmd>: main up to the call of the command's method.
\* parse_args prints the help when there is no argument, and ends the process
\* itself, with the usage on standard error and exit code 2, when the command is
\* not one of the choices; then the task is looked up.
Invoke(taskname, cmd) ==
    /\ pc = "idle"
    /\ task' = taskname
    /\ command' = cmd
    /\ branch_pos' = 0
    /\ trace' = <<>>
    /\ IF taskname = NoArg /\ cmd = NoArg
       THEN /\ out' = <<USAGE>>
            /\ err' = <<>>
            /\ exitcode' = 0
            /\ pc' = "exited"
       ELSE IF cmd \notin COMMANDS
       THEN /\ out' = <<>>
            /\ err' = <<INVALID_CHOICE>>
            /\ exitcode' = 2
            /\ pc' = "exited"
       ELSE IF taskname \notin TaskNames
       THEN /\ out' = <<MSG_NOT_FOUND>>
            /\ err' = <<>>
            /\ exitcode' = 1
            /\ pc' = "exited"
       ELSE /\ out' = <<>>
            /\ err' = <<>>
            /\ exitcode' = NoExit
            /\ pc' = entry(cmd)
    /\ UNCHANGED <<repo, result>>

(* Task.reset_branches *)

\* subprocess.run(['git', 'reset', '--hard'])
ResetHard ==
    /\ pc = "reset_hard"
    /\ dirty' = FALSE
    /\ pc' = "switch_main"
    /\ trace' = Append(trace, GitCall("git reset --hard", FALSE, ""))
    /\ UNCHANGED <<commits, refs, HEAD, task, command, branch_pos, out, err, exitcode, result>>

\* reset_branches without its first switch_branch('main'): the loop starts on
\* the branch the learner had checked out.
SwitchMain_skipped ==
    /\ pc = "switch_main"
    /\ branch_pos' = 1
    /\ pc' = IF Len(branch_names[task]) >= 1 THEN "branch_D" ELSE "switch_main_end"
    /\ UNCHANGED <<repo, task, command, out, err, trace, exitcode, result>>

\* switch_branch('main'): git checkout main, check=True
SwitchMain ==
    /\ pc = "switch_main"
    /\ IF MAIN \in DOMAIN refs
       THEN /\ HEAD' = MAIN
            /\ branch_pos' = 1
            /\ pc' = IF Len(branch_names[task]) >= 1 THEN "branch_D" ELSE "switch_main_end"
            /\ trace' = Append(trace, GitCall("git checkout", FALSE, ""))
            /\ UNCHANGED <<task, command, out, err, exitcode>>
       ELSE /\ Uncaught
            /\ trace' = Append(trace, GitCall("git checkout", TRUE, "CalledProcessError"))
            /\ UNCHANGED HEAD
    /\ UNCHANGED <<commits, refs, dirty, result>>

\* reset_branches without its git branch -D: the old branch is left in place.
BranchD_skipped ==
    /\ pc = "branch_D"
    /\ pc' = "checkout_b"
    /\ UNCHANGED <<repo, task, command, branch_pos, out, err, trace, exitcode, result>>

\* git branch -D run with check=True: a branch that cannot be deleted raises.
BranchD_checked ==
    /\ pc = "branch_D"
    /\ LET branch_name == branch_names[task][branch_pos]
           deleted == branch_name \in DOMAIN refs /\ branch_name # HEAD
       IN  IF deleted
           THEN /\ refs' = Remove(refs, branch_name)
                /\ trace' = Append(trace, GitCall("git branch -D", FALSE, ""))
                /\ pc' = "checkout_b"
                /\ UNCHANGED <<task, command, branch_pos, out, err, exitcode>>
           ELSE /\ Uncaught
                /\ trace' = Append(trace, GitCall("git branch -D", TRUE, "CalledProcessError"))
                /\ UNCHANGED refs
    /\ UNCHANGED <<commits, HEAD, dirty, result>>

\* subprocess.run(['git', 'branch', '-D', branch_name]): the exit status is not
\* looked at; git refuses to delete the checked-out branch and has no branch to
\* delete when the name does not exist.
BranchD ==
    /\ pc = "branch_D"
    /\ LET branch_name == branch_names[task][branch_pos]
           deleted == branch_name \in DOMAIN refs /\ branch_name # HEAD
       IN  /\ refs' = IF deleted THEN Remove(refs, branch_name) ELSE refs
           /\ trace' = Append(trace, GitCall("git branch -D", ~deleted, ""))
    /\ pc' = "checkout_b"
    /\ UNCHANGED <<commits, HEAD, dirty, task, command, branch_pos, out, err, exitcode, result>>

\* git checkout -b that also forces main onto the start point.
checkout_b_and_main(branch_name, start_point) ==
    [ok |-> branch_name \notin DOMAIN refs /\ start_point \in DOMAIN refs,
     refs |-> IF start_point \in DOMAIN refs
              THEN Put(Put(refs, branch_name, refs[start_point]), MAIN, refs[start_point])
              ELSE refs]

\* git checkout -b <branch_name> with no start point: the new branch is put on
\* the commit that is checked out.
checkout_b_no_start_point(branch_name, start_point) ==
    [ok |-> branch_name \notin DOMAIN refs /\ start_point \in DOMAIN refs,
     refs |-> Put(refs, branch_name, refs[HEAD])]

\* What git checkout -b <branch_name> <start_point> leaves: the new branch at the
\* start point, checked out.
checkout_b(branch_name, start_point) ==
    [ok |-> branch_name \notin DOMAIN refs /\ start_point \in DOMAIN refs,
     refs |-> IF start_point \in DOMAIN refs
              THEN Put(refs, branch_name, refs[start_point]) ELSE refs]

\* subprocess.run(['git', 'checkout', '-b', branch_name, 'origin/' + branch_name],
\* check=True)
CheckoutB ==
    /\ pc = "checkout_b"
    /\ LET branch_name == branch_names[task][branch_pos]
           done == checkout_b(branch_name, origin(branch_name))
       IN  IF done.ok
           THEN /\ refs' = done.refs
                /\ HEAD' = branch_name
                /\ IF branch_pos < Len(branch_names[task])
                   THEN branch_pos' = branch_pos + 1 /\ pc' = "branch_D"
                   ELSE branch_pos' = branch_pos /\ pc' = "switch_main_end"
                /\ trace' = Append(trace, GitCall("git checkout -b", FALSE, ""))
                /\ UNCHANGED <<task, command, out, err, exitcode>>
           ELSE /\ Uncaught
                /\ trace' = Append(trace, GitCall("git checkout -b", TRUE, "CalledProcessError"))
                /\ UNCHANGED <<refs, HEAD>>
    /\ UNCHANGED <<commits, dirty, result>>

\* switch_branch('main') at the end of reset_branches
SwitchMainEnd ==
    /\ pc = "switch_main_end"
    /\ IF MAIN \in DOMAIN refs
       THEN /\ HEAD' = MAIN
            /\ pc' = "print_task"
            /\ trace' = Append(trace, GitCall("git checkout", FALSE, ""))
            /\ UNCHANGED <<task, command, branch_pos, out, err, exitcode>>
       ELSE /\ Uncaught
            /\ trace' = Append(trace, GitCall("git checkout", TRUE, "CalledProcessError"))
            /\ UNCHANGED HEAD
    /\ UNCHANGED <<commits, refs, dirty, result>>

(* start *)

\* print(<the task's instructions>), then main returns: exit code 0
PrintTask ==
    /\ pc = "print_task"
    /\ out' = Append(out, "Task: " \o task)
    /\ exitcode' = 0
    /\ pc' = "exited"
    /\ UNCHANGED <<repo, task, command, branch_pos, err, trace, result>>

(* check *)

MSG_CONTENT == "The content of source/cheatsheet.md is different than expected"

Stmt(fn, old, branch, count, expected, skip) ==
    [fn |-> fn, old |-> old, branch |-> branch, count |-> count, expected |-> expected,
     skip |-> skip]

\* The statements of Rebase.check, on the fixture: the rebased feature branch has
\* its own commit on top of the commit of the main branch.
Rebase_check ==
    <<Stmt("check_branches_identical", origin("rebase-main"), "rebase-main", 0, <<>>, 0),
      Stmt("check_old_commits_unchanged", origin("rebase-main"), "rebase-feature", 0, <<>>, 0),
      Stmt("check_commits_count", "", "rebase-feature", 2, <<>>, 0),
      Stmt("check_summaries", "", "rebase-feature", 0, <<(<<"b">>), (<<"a">>)>>, 0)>>

\* The statements of ConflictRevert.check, on the fixture: the revert commit is on
\* top of the commit of the origin branch.
ConflictRevert_check ==
    <<Stmt("check_old_commits_unchanged", origin("conflict-revert-main"),
           "conflict-revert-main", 0, <<>>, 0),
      Stmt("check_commits_count", "", "conflict-revert-main", 2, <<>>, 0),
      Stmt("check_summaries", "", "conflict-revert-main", 0, <<(<<"r">>), (<<"b">>)>>, 1),
      Stmt("git switch", "", "conflict-revert-main", 0, <<>>, 0),
      Stmt("open", "", "", 0, <<>>, 0)>>

checks(taskname) == IF taskname = "rebase" THEN Rebase_check ELSE ConflictRevert_check

\* The statement the check method is at: each statement run has left one entry
\* in trace.
statement == checks(task)[Len(trace) + 1]

Helpers ==
    {"check_branches_identical", "check_old_commits_unchanged", "check_commits_count",
     "check_summaries"}

call(st) ==
    CASE st.fn = "check_branches_identical" -> check_branches_identical(st.old, st.branch)
      [] st.fn = "check_old_commits_unchanged" -> check_old_commits_unchanged(st.old, st.branch)
      [] st.fn = "check_commits_count" -> check_commits_count(st.branch, st.count)
      [] st.fn = "check_summaries" -> check_summaries(st.branch, st.expected, st.skip)

\* The statement returned: on to the next one, or to print("OK") after the last.
Returned ==
    /\ pc' = IF Len(trace) + 1 = Len(checks(task)) THEN "print_ok" ELSE "check"
    /\ UNCHANGED <<task, command, branch_pos, out, err, exitcode>>

\* A check that reports a check failure and goes on with its next statement.
Raised_goes_on(ret) ==
    IF ret.exc = "" THEN Returned
    ELSE IF ret.exc = "TaskCheckException"
    THEN /\ out' = Append(out, CHECK_FAILED \o ret.msg)
         /\ pc' = IF Len(trace) + 1 = Len(checks(task)) THEN "print_ok" ELSE "check"
         /\ UNCHANGED <<task, command, branch_pos, err, exitcode>>
    ELSE Uncaught

\* What a statement's exception does to the process.
Raised(ret) ==
    IF ret.exc = "" THEN Returned
    ELSE IF ret.exc = "TaskCheckException" THEN Caught(CHECK_FAILED \o ret.msg)
    ELSE Uncaught

\* A statement that calls one of the check_* helpers.
CheckHelper ==
    /\ pc = "check"
    /\ statement.fn \in Helpers
    /\ trace' = Append(trace, Statement(statement.fn, call(statement).exc))
    /\ Raised(call(statement))
    /\ UNCHANGED <<repo, result>>

\* subprocess.run(['git', 'switch', <branch>], check=True).  With local
\* modifications git switch goes through when the files modified are the same in
\* the two commits and refuses otherwise: which files are modified is not part of
\* the state, so both can happen.
CheckSwitch ==
    /\ pc = "check"
    /\ statement.fn = "git switch"
    /\ LET branch == statement.branch
           conflict == branch \in DOMAIN refs /\ dirty /\ refs[HEAD] # refs[branch]
       IN  \E refused \in (IF conflict THEN BOOLEAN ELSE {FALSE}) :
              LET switched == branch \in DOMAIN refs /\ ~refused
              IN  /\ HEAD' = IF switched THEN branch ELSE HEAD
                  /\ trace' = Append(trace, GitCall("git switch", ~switched,
                                     IF switched THEN "" ELSE "CalledProcessError"))
                  /\ IF switched THEN Returned ELSE Uncaught
    /\ UNCHANGED <<commits, refs, dirty, result>>

\* The files source/cheatsheet.md can be read as: with the expected lines, with
\* other lines, or not there at all.
EXPECTED_LINES == "expected_lines"
OTHER_LINES == "other lines"
NoFile == "FileNotFoundError"
Cheatsheets == {EXPECTED_LINES, OTHER_LINES, NoFile}

\* with open('source/cheatsheet.md') as f: ...; if lines != expected_lines: raise
CheckFile ==
    /\ pc = "check"
    /\ statement.fn = "open"
    /\ \E lines \in Cheatsheets :
          LET ret == IF lines = NoFile THEN Ret("FileNotFoundError", "", <<>>, NoDiff, "", <<>>, <<>>)
                     ELSE IF lines # EXPECTED_LINES
                     THEN TaskCheckException(MSG_CONTENT, <<>>, <<>>)
                     ELSE Return(<<>>)
          IN  /\ trace' = Append(trace, Statement("open", ret.exc))
              /\ Raised(ret)
    /\ UNCHANGED <<repo, result>>

\* print("OK"), then main returns: exit code 0
PrintOK ==
    /\ pc = "print_ok"
    /\ out' = Append(out, OK)
    /\ exitcode' = 0
    /\ pc' = "exited"
    /\ UNCHANGED <<repo, task, command, branch_pos, err, trace, result>>

\* The process is gone: a task keeps no state from one invocation to the next
\* but the repository.
ProcessExit ==
    /\ pc = "exited"
    /\ pc' = "idle"
    /\ task' = ""
    /\ command' = ""
    /\ branch_pos' = 0
    /\ out' = <<>>
    /\ err' = <<>>
    /\ trace' = <<>>
    /\ exitcode' = NoExit
    /\ result' = IF command = "start" /\ task \in TaskNames
                 THEN Ran(task, refs, HEAD, dirty, exitcode) ELSE NoCall
    /\ UNCHANGED repo

Learner ==
    \/ \E b \in LocalBranches : LearnerCheckout(b)
    \/ LearnerEdit
    \/ \E s \in Summaries \ {<<>>} : LearnerCommit(s)
    \/ \E b \in LocalBranches : LearnerDeleteBranch(b)
    \/ \E b \in LocalBranches, c \in CommitIds : LearnerMoveBranch(b, c)

Next ==
    \/ Learner
    \/ \E argv \in Argv : Invoke(argv[1], argv[2])
    \/ ResetHard
    \/ SwitchMain
    \/ BranchD
    \/ CheckoutB
    \/ SwitchMainEnd
    \/ PrintTask
    \/ CheckHelper
    \/ CheckSwitch
    \/ CheckFile
    \/ PrintOK
    \/ ProcessExit

Spec == Init /\ [][Next]_vars

----------------------------------------------------------------------------
(* Revert.check: the one checker that compares content.  In this          *)
(* specification a commit also has a tree, the lines of source/cheatsheet.md *)
(* as of that commit.                                                       *)

\* The contents the file can have: a text of lines, each line one character.
Contents == {<<>>, <<"x">>, <<"x", "y">>}

\* The lines of a that b does not have, each marked with sign.
RECURSIVE marked(_, _, _)
marked(a, b, sign) ==
    IF a = <<>> THEN <<>>
    ELSE (IF contains(b, Head(a)) THEN <<>> ELSE <<(<<sign, Head(a)>>)>>)
             \o marked(Tail(a), b, sign)

\* The text git diff prints for two contents of the file: nothing when they are
\* equal, otherwise the index line with the two blobs, the lines taken out and
\* the lines put in.
diff_text(a, b) ==
    IF a = b THEN <<>>
    ELSE <<(<<"index", a, b>>)>> \o marked(a, b, "-") \o marked(b, a, "+")

\* git diff <x> <y>, check=True; stdout stripped
git_diff(x, y) ==
    IF resolve(x) = {} \/ resolve(y) = {} THEN CalledProcessError
    ELSE Return(diff_text(commits[CHOOSE c \in resolve(x) : TRUE].tree,
                          commits[CHOOSE c \in resolve(y) : TRUE].tree))

REVERT_MAIN == "revert-main"
MSG_NOT_REVERT == "The last commit is not the reverted commit"

\* What the check expects of the fixture below: the four commits of the origin
\* branch and the revert commit on top; the summary of the revert commit is free.
REVERT_COUNT == 5
REVERT_SUMMARIES == <<(<<"r">>), (<<"b">>), (<<"a">>), (<<"b">>), (<<"a">>)>>

\* Revert.check with the second pair of the comparison in the opposite order.
Revert_check_swapped ==
    LET unchanged == check_old_commits_unchanged(origin(REVERT_MAIN), REVERT_MAIN)
        count == check_commits_count(REVERT_MAIN, REVERT_COUNT)
        summaries == check_summaries(REVERT_MAIN, REVERT_SUMMARIES, 1)
        log == commit_log(REVERT_MAIN, FORMAT_HASH)
    IN  IF unchanged.exc # "" THEN unchanged
        ELSE IF count.exc # "" THEN count
        ELSE IF summaries.exc # "" THEN summaries
        ELSE IF log.exc # "" THEN log
        ELSE IF Len(log.val) < 5 THEN IndexError
        ELSE LET expected_diff == git_diff(log.val[5], log.val[4])
                 revert_commit_diff == git_diff(log.val[2], log.val[1])
             IN  IF expected_diff.exc # "" THEN expected_diff
                 ELSE IF revert_commit_diff.exc # "" THEN revert_commit_diff
                 ELSE IF revert_commit_diff.val # expected_diff.val
                 THEN TaskCheckException(MSG_NOT_REVERT, <<>>, <<>>)
                 ELSE Return(<<>>)

\* Revert.check up to its print("OK").  The python lists are indexed from 0:
\* commits[4], commits[3], commits[0], commits[1] are log.val[5], [4], [1], [2].
Revert_check ==
    LET unchanged == check_old_commits_unchanged(origin(REVERT_MAIN), REVERT_MAIN)
        count == check_commits_count(REVERT_MAIN, REVERT_COUNT)
        summaries == check_summaries(REVERT_MAIN, REVERT_SUMMARIES, 1)
        log == commit_log(REVERT_MAIN, FORMAT_HASH)
    IN  IF unchanged.exc # "" THEN unchanged
        ELSE IF count.exc # "" THEN count
        ELSE IF summaries.exc # "" THEN summaries
        ELSE IF log.exc # "" THEN log
        ELSE IF Len(log.val) < 5 THEN IndexError
        ELSE LET expected_diff == git_diff(log.val[5], log.val[4])
                 revert_commit_diff == git_diff(log.val[1], log.val[2])
             IN  IF expected_diff.exc # "" THEN expected_diff
                 ELSE IF revert_commit_diff.exc # "" THEN revert_commit_diff
                 ELSE IF revert_commit_diff.val # expected_diff.val
                 THEN TaskCheckException(MSG_NOT_REVERT, <<>>, <<>>)
                 ELSE Return(<<>>)

\* The origin branch of the task: four commits on top of the baseline, the
\* second of which (D) is the one to revert; the contents are any.
RevertFixtures ==
    {<<[parents |-> {}, summary |-> <<"a">>, tree |-> <<>>],
       [parents |-> {1}, summary |-> <<"a">>, tree |-> tc],
       [parents |-> {2}, summary |-> <<"b">>, tree |-> td],
       [parents |-> {3}, summary |-> <<"a">>, tree |-> te],
       [parents |-> {4}, summary |-> <<"b">>, tree |-> tf]>> :
        tc \in Contents, td \in Contents, te \in Contents, tf \in Contents}

InitRevert ==
    /\ commits \in RevertFixtures
    /\ refs = [r \in {BASELINE, origin(REVERT_MAIN), REVERT_MAIN} |->
                   IF r = BASELINE THEN 1 ELSE 5]
    /\ HEAD = REVERT_MAIN
    /\ dirty = FALSE
    /\ HarnessIdle
    /\ result = NoCall

\* git commit -a -m <summary> with the file as content (git revert makes such a
\* commit), on top of the checked-out branch.
LearnerCommitsContent(summary, content) ==
    /\ result = NoCall
    /\ Len(commits) < 5 + MaxLearnerCommits
    /\ commits' = Append(commits, [parents |-> {refs[HEAD]}, summary |-> summary,
                                   tree |-> content])
    /\ refs' = [refs EXCEPT ![HEAD] = Len(commits) + 1]
    /\ UNCHANGED <<HEAD, dirty, harness, result>>

\* git reset --hard <c>
LearnerResets(c) ==
    /\ result = NoCall
    /\ refs[HEAD] # c
    /\ refs' = [refs EXCEPT ![HEAD] = c]
    /\ UNCHANGED <<commits, HEAD, dirty, harness, result>>

CallRevertCheck ==
    /\ result = NoCall
    /\ result' = Call("Revert.check", REVERT_MAIN, origin(REVERT_MAIN), "", REVERT_COUNT,
                      REVERT_SUMMARIES, 1, Revert_check)
    /\ UNCHANGED <<repo, harness>>

NextRevert ==
    \/ \E s \in Summaries \ {<<>>}, t \in Contents : LearnerCommitsContent(s, t)
    \/ \E c \in CommitIds : LearnerResets(c)
    \/ CallRevertCheck

SpecRevert == InitRevert /\ [][NextRevert]_vars

----------------------------------------------------------------------------
(* The branch list: git branch, branch_list and DeleteBranch.check.  In     *)
(* this specification the learner creates, deletes and checks out branches  *)
(* and runs the check of the task delete-branch.                            *)
(* A branch name is one element of a text.                                 *)

DELETE_BRANCH_MAIN == "delete-branch-main"
TOPIC == "topic"

\* The local branch names of this specification, in the order git branch lists
\* them (by name).
BranchOrder == <<DELETE_BRANCH_MAIN, MAIN, TOPIC>>

MSG_STILL_EXISTS == "The branch delete-branch-main still exists."

\* stdout of git branch: one line per local branch, the checked-out one behind
\* the marker "* ", the others behind two blanks.
RECURSIVE print_branches(_)
print_branches(names) ==
    IF names = <<>> THEN <<>>
    ELSE (IF Head(names) \notin DOMAIN refs THEN <<>>
          ELSE IF Head(names) = HEAD THEN <<"*", " ", Head(names), NL>>
          ELSE <<" ", " ", Head(names), NL>>)
         \o print_branches(Tail(names))

\* git branch, check=True; the output stripped, split in lines, each line stripped
branch_list ==
    LET lines == split(strip(print_branches(BranchOrder)), NL)
    IN  Return([k \in 1..Len(lines) |-> strip(lines[k])])

\* DeleteBranch.check up to its print("OK")
DeleteBranch_check ==
    IF branch_list.exc # "" THEN branch_list
    ELSE IF contains(branch_list.val, <<DELETE_BRANCH_MAIN>>)
    THEN TaskCheckException(MSG_STILL_EXISTS, <<>>, <<>>)
    ELSE Return(<<>>)

\* The clone after start of the task delete-branch.
InitBranches ==
    /\ commits = FixtureCommits
    /\ refs = [r \in {BASELINE, MAIN, origin(DELETE_BRANCH_MAIN), DELETE_BRANCH_MAIN} |->
                   IF r \in {BASELINE, MAIN} THEN 1 ELSE 2]
    /\ HEAD = MAIN
    /\ dirty = FALSE
    /\ HarnessIdle
    /\ result = NoCall

CallDeleteBranchCheck ==
    /\ result = NoCall
    /\ result' = Call("DeleteBranch.check", DELETE_BRANCH_MAIN, "", "", 0, <<>>, 0,
                      DeleteBranch_check)
    /\ UNCHANGED <<repo, harness>>

NextBranches ==
    \/ \E b \in {MAIN, DELETE_BRANCH_MAIN, TOPIC} : LearnerCheckout(b)
    \/ \E s \in Summaries \ {<<>>} : LearnerCommit(s)
    \/ \E b \in {DELETE_BRANCH_MAIN, TOPIC} : LearnerDeleteBranch(b)
    \/ \E b \in {DELETE_BRANCH_MAIN, TOPIC}, c \in CommitIds : LearnerMoveBranch(b, c)
    \/ CallDeleteBranchCheck

SpecBranches == InitBranches /\ [][NextBranches]_vars

----------------------------------------------------------------------------
(* The working-tree status: git status --porcelain and Add.check.  In this  *)
(* specification the working copy is a status code per path, and the        *)
(* learner creates, edits, stages and removes files and runs the check of   *)
(* the task add.  A path is one element of a text.                          *)

SIMPLE == "simple"

\* The paths of the working copy, in the order git lists them: a file of the
\* repository and the two files of the task.
Paths == <<"cheatsheet", "day", "night">>

Clean == <<>>
UNTRACKED == <<"?", "?">>
ADDED == <<"A">>

\* The status codes (XY of the short format) a path can have; Clean is the path
\* that has nothing to report: unchanged, or not there.
Codes(path) ==
    IF path = "cheatsheet" THEN {Clean, <<" ", "M">>, <<"M", " ">>, <<" ", "D">>}
    ELSE {Clean, UNTRACKED, <<"A", " ">>, <<"A", "M">>}

RECURSIVE print_entries(_, _)
\* The lines of the paths of ps whose code is (untracked = TRUE) or is not
\* (untracked = FALSE) the code of an untracked path.
print_entries(ps, untracked) ==
    IF ps = <<>> THEN <<>>
    ELSE (IF dirty[Head(ps)] # Clean /\ ((dirty[Head(ps)] = UNTRACKED) <=> untracked)
          THEN dirty[Head(ps)] \o <<" ", Head(ps), NL>>
          ELSE <<>>)
         \o print_entries(Tail(ps), untracked)

\* stdout of git status --porcelain: "XY path" per line, the changes of the index
\* and of tracked files first, the untracked paths after them.
print_status == print_entries(Paths, FALSE) \o print_entries(Paths, TRUE)

\* str.split(sep, 1): at most two fields.
split_once(t, sep) ==
    IF \E i \in 1..Len(t) : t[i] = sep
    THEN LET i == CHOOSE j \in 1..Len(t) : t[j] = sep /\ \A k \in 1..(j - 1) : t[k] # sep
         IN  <<SubSeq(t, 1, i - 1), SubSeq(t, i + 1, Len(t))>>
    ELSE <<t>>

ValueError == Ret("ValueError", "", <<>>, NoDiff, "", <<>>, <<>>)

MSG_NOT_ADDED == "There are no paths added to the index"
MSG_DIFFERENT_PATHS == "There are different paths in index that expected"
MSG_UNEXPECTED_PATHS == "There are unexpected paths in the index"
MSG_NOT_UNTRACKED == "The night file should be untracked, but is not"

RECURSIVE status_loop(_, _, _, _)
\* The loop of Add.check over the lines of the status; when it ends, the three
\* lists are judged.
status_loop(lines, added_files, untracked_files, other_files) ==
    IF lines = <<>>
    THEN IF added_files = <<>> THEN TaskCheckException(MSG_NOT_ADDED, <<>>, <<>>)
         ELSE IF added_files # <<(<<"day">>)>>
         THEN TaskCheckException(MSG_DIFFERENT_PATHS, <<>>, <<>>)
         ELSE IF other_files # <<>> THEN TaskCheckException(MSG_UNEXPECTED_PATHS, <<>>, <<>>)
         ELSE IF ~contains(untracked_files, <<"night">>)
         THEN TaskCheckException(MSG_NOT_UNTRACKED, <<>>, <<>>)
         ELSE Return(<<>>)
    ELSE LET fields == split_once(Head(lines), " ")
         IN  IF Len(fields) # 2 THEN ValueError
             ELSE LET action == fields[1]
                      file_path == strip(fields[2])
                  IN  IF action = ADDED
                      THEN status_loop(Tail(lines), Append(added_files, file_path),
                                       untracked_files, other_files)
                      ELSE IF action = UNTRACKED
                      THEN status_loop(Tail(lines), added_files,
                                       Append(untracked_files, file_path), other_files)
                      ELSE status_loop(Tail(lines), added_files, untracked_files,
                                       Append(other_files, file_path))

\* Add.check up to its print("OK"); git status --porcelain, check=True, does not
\* fail in a repository.
Add_check ==
    LET identical == check_branches_identical(origin(SIMPLE), SIMPLE)
        status == strip(print_status)
    IN  IF identical.exc # "" THEN identical
        ELSE status_loop(split(status, NL), <<>>, <<>>, <<>>)

\* The clone after start of the task add: simple is where origin has it and
\* the working copy has nothing to report.
InitAdd ==
    /\ commits = FixtureCommits
    /\ refs = [r \in {BASELINE, MAIN, origin(SIMPLE), SIMPLE} |->
                   IF r \in {BASELINE, MAIN} THEN 1 ELSE 2]
    /\ HEAD = SIMPLE
    /\ dirty = [p \in {Paths[k] : k \in 1..Len(Paths)} |-> Clean]
    /\ HarnessIdle
    /\ result = NoCall

\* The learner creates, edits, stages (git add), restores or removes a file.
LearnerTouches(path, code) ==
    /\ result = NoCall
    /\ dirty[path] # code
    /\ dirty' = [dirty EXCEPT ![path] = code]
    /\ UNCHANGED <<commits, refs, HEAD, harness, result>>

\* git commit --allow-empty -m <summary>: the status stays as it is.
LearnerCommitsEmpty(summary) ==
    /\ result = NoCall
    /\ Len(commits) < Len(FixtureCommits) + MaxLearnerCommits
    /\ commits' = git_commit(summary).commits
    /\ refs' = git_commit(summary).refs
    /\ UNCHANGED <<HEAD, dirty, harness, result>>

CallAddCheck ==
    /\ result = NoCall
    /\ result' = Call("Add.check", SIMPLE, origin(SIMPLE), "", 0, <<>>, 0, Add_check)
    /\ UNCHANGED <<repo, harness>>

NextAdd ==
    \/ \E k \in 1..Len(Paths) : \E code \in Codes(Paths[k]) : LearnerTouches(Paths[k], code)
    \/ \E s \in Summaries \ {<<>>} : LearnerCommitsEmpty(s)
    \/ CallAddCheck

SpecAdd == InitAdd /\ [][NextAdd]_vars

----------------------------------------------------------------------------
(* Positional access: ChangeMessage.check and Revert.check.  In this        *)
(* specification the learner works on the branches of the two tasks, with   *)
(* commits of any summary, the empty one included, and runs the two checks. *)

CHANGE_MESSAGE_TASKS == "change-message-tasks"
CHANGE_MESSAGE_COUNT == 2
CHANGE_MESSAGE_SUMMARIES == <<(<<"b">>), (<<"a">>)>>

MSG_NUMBER_DIFFERS == "The number of new commits differs from the expected number"
MSG_NOT_CHANGED == "The commit message seems not be changed correctly"

\* ChangeMessage.check without the comparison of the two lengths.
ChangeMessage_check_unguarded ==
    LET count == check_commits_count(CHANGE_MESSAGE_TASKS, CHANGE_MESSAGE_COUNT)
        main_summaries == commit_log(CHANGE_MESSAGE_TASKS, FORMAT_SUMMARY)
    IN  IF count.exc # "" THEN count
        ELSE IF main_summaries.exc # "" THEN main_summaries
        ELSE IF Len(main_summaries.val) < 2 THEN IndexError
        ELSE IF main_summaries.val[2] # CHANGE_MESSAGE_SUMMARIES[2]
        THEN TaskCheckException(MSG_NOT_CHANGED, main_summaries.val[2], <<>>)
        ELSE Return(<<>>)

\* ChangeMessage.check up to its print("OK").  The python lists are indexed
\* from 0: main_summaries[1] is main_summaries.val[2].
ChangeMessage_check ==
    LET count == check_commits_count(CHANGE_MESSAGE_TASKS, CHANGE_MESSAGE_COUNT)
        main_summaries == commit_log(CHANGE_MESSAGE_TASKS, FORMAT_SUMMARY)
    IN  IF count.exc # "" THEN count
        ELSE IF main_summaries.exc # "" THEN main_summaries
        ELSE IF Len(main_summaries.val) # Len(CHANGE_MESSAGE_SUMMARIES)
        THEN TaskCheckException(MSG_NUMBER_DIFFERS, <<>>, <<>>)
        ELSE IF Len(main_summaries.val) < 2 THEN IndexError
        ELSE IF main_summaries.val[2] # CHANGE_MESSAGE_SUMMARIES[2]
        THEN TaskCheckException(MSG_NOT_CHANGED, main_summaries.val[2], <<>>)
        ELSE Return(<<>>)

\* The clone after start of the two tasks: the branch of change-message has two
\* commits on top of the baseline, the branch of revert four.
InitPositions ==
    /\ commits \in {f \in RevertFixtures : f[2].tree = <<"x">> /\ f[4].tree = <<"x", "y">>}
    /\ refs = [r \in {BASELINE, origin(REVERT_MAIN), REVERT_MAIN,
                      origin(CHANGE_MESSAGE_TASKS), CHANGE_MESSAGE_TASKS} |->
                   CASE r = BASELINE -> 1
                     [] r \in {origin(REVERT_MAIN), REVERT_MAIN} -> 5
                     [] OTHER -> 3]
    /\ HEAD = REVERT_MAIN
    /\ dirty = FALSE
    /\ HarnessIdle
    /\ result = NoCall

CallChangeMessageCheck ==
    /\ result = NoCall
    /\ result' = Call("ChangeMessage.check", CHANGE_MESSAGE_TASKS, "", "", CHANGE_MESSAGE_COUNT,
                      CHANGE_MESSAGE_SUMMARIES, 0, ChangeMessage_check)
    /\ UNCHANGED <<repo, harness>>

NextPositions ==
    \/ \E b \in {REVERT_MAIN, CHANGE_MESSAGE_TASKS} : LearnerCheckout(b)
    \/ \E s \in Summaries : LearnerCommitsContent(s, <<"x">>)
    \/ \E c \in CommitIds : LearnerResets(c)
    \/ CallRevertCheck
    \/ CallChangeMessageCheck

SpecPositions == InitPositions /\ [][NextPositions]_vars

----------------------------------------------------------------------------
(* What the claims speak of: the enumeration of a reference, read off the   *)
(* commit graph.                                                           *)

\* The revisions of a reference that are above the baseline, newest first.
enumerate(ref) == rev_list(BASELINE, ref)

ids_of(ref) == {enumerate(ref)[i] : i \in 1..Len(enumerate(ref))}

RECURSIVE summaries_in(_)
summaries_in(cs) ==
    IF cs = <<>> THEN <<>> ELSE <<commits[Head(cs)].summary>> \o summaries_in(Tail(cs))

\* The summaries of the enumeration, in its order.
summaries_of(ref) == summaries_in(enumerate(ref))

\* The positions of enumerate(old) whose identifier enumerate(new) does not have.
Absent(old, new) == {i \in 1..Len(enumerate(old)) : enumerate(old)[i] \notin ids_of(new)}

FirstAbsent(old, new) ==
    enumerate(old)[CHOOSE i \in Absent(old, new) : \A j \in Absent(old, new) : i <= j]

IsCall(op) == result.op = op

\* The enumeration has a revision and no revision of it has an empty summary:
\* commit_log then returns exactly the enumeration (see C2 for the other case).
Plain(ref) == enumerate(ref) # <<>> /\ ~contains(summaries_of(ref), <<>>)

----------------------------------------------------------------------------
(* C1 *)

\* C1: commit_log (identifier format) never returns the identifier of a revision
\* that is reachable from the baseline reference origin/tasks.
C1_Boundary ==
    (IsCall("commit_log") /\ result.format = FORMAT_HASH /\ result.ret.exc = "")
        => \A i \in 1..Len(result.ret.val) :
               \A c \in Reachable({refs[BASELINE]}) : result.ret.val[i] # hexsha(c)

\* The branch is ahead of a baseline that has a history of its own, and the
\* call returned the branch head first.
C1_Witness ==
    /\ IsCall("commit_log") /\ result.format = FORMAT_HASH
    /\ Cardinality(Reachable({refs[BASELINE]})) >= 2
    /\ refs[BASELINE] \in Reachable({refs[result.branch]})
    /\ refs[result.branch] # refs[BASELINE]
    /\ result.ret.val[1] = hexsha(refs[result.branch])

----------------------------------------------------------------------------
(* C2 *)

\* C2: when the reference has no revision above the baseline, commit_log returns
\* a sequence of length 0.
C2_EmptyIsEmpty ==
    (IsCall("commit_log") /\ result.ret.exc = "" /\ enumerate(result.branch) = <<>>)
        => Len(result.ret.val) = 0

----------------------------------------------------------------------------
(* C3 *)

\* C3: check_commits_count(R, n) succeeds iff enumerate(R) has n revisions; otherwise
\* it reports abs(actual - n) and "more" when actual > n, "less" when actual < n.
C3_CountIff ==
    IsCall("check_commits_count") =>
        LET actual == Len(enumerate(result.branch))
            n == result.count
        IN  /\ result.ret.exc = "" <=> actual = n
            /\ actual # n =>
                   /\ result.ret.exc = "TaskCheckException"
                   /\ result.ret.diff = abs(actual - n)
                   /\ result.ret.quantifier = IF actual > n THEN "more" ELSE "less"

----------------------------------------------------------------------------
(* C4 *)

\* C4: check_old_commits_unchanged passes when every identifier of enumerate(old) is
\* in enumerate(new); for the first identifier that is not, it fails with
\* "unexpectedly modified" if that revision's summary is a summary of enumerate(new),
\* and with "is missing" if it is not; the message names that summary.
C4_Classification ==
    IsCall("check_old_commits_unchanged") =>
        IF Absent(result.old, result.branch) = {}
        THEN result.ret.exc = ""
        ELSE LET s == commits[FirstAbsent(result.old, result.branch)].summary
             IN  /\ result.ret.exc = "TaskCheckException"
                 /\ result.ret.summary = s
                 /\ result.ret.msg = IF contains(summaries_of(result.branch), s)
                                     THEN MSG_MODIFIED ELSE MSG_MISSING

----------------------------------------------------------------------------
(* C5 *)

\* C5 as stated: check_old_commits_unchanged succeeds iff every revision of
\* enumerate(old) has its identifier or its summary in enumerate(new).  (Stated
\* for the histories on which commit_log returns exactly the enumerations.)
C5_Original ==
    (IsCall("check_old_commits_unchanged") /\ Plain(result.old) /\ Plain(result.branch)) =>
        (result.ret.exc = "" <=>
            \A i \in 1..Len(enumerate(result.old)) :
                \/ enumerate(result.old)[i] \in ids_of(result.branch)
                \/ contains(summaries_of(result.branch), summaries_of(result.old)[i]))

\* C5 amended: check_old_commits_unchanged succeeds only if every revision of
\* enumerate(old) has its identifier in enumerate(new): a revision whose identifier
\* is absent makes it fail with a check failure, whether or not its summary is
\* found.  It succeeds whenever every identifier is found and enumerate(old) is
\* not empty.
C5_Amended ==
    IsCall("check_old_commits_unchanged") =>
        /\ result.ret.exc = "" => Absent(result.old, result.branch) = {}
        /\ Absent(result.old, result.branch) # {} => result.ret.exc = "TaskCheckException"
        /\ (Absent(result.old, result.branch) = {} /\ enumerate(result.old) # <<>>)
               => result.ret.exc = ""

\* The rebase scenario: a revision of the old branch is in the new branch under a
\* new identifier with the same non-empty summary, and the check failed on it.
C5_Witness ==
    /\ IsCall("check_old_commits_unchanged")
    /\ Absent(result.old, result.branch) # {}
    /\ \A i \in Absent(result.old, result.branch) :
           /\ summaries_of(result.old)[i] # <<>>
           /\ contains(summaries_of(result.branch), summaries_of(result.old)[i])
    /\ result.ret.msg = MSG_MODIFIED

----------------------------------------------------------------------------
(* C6 *)

\* The learner has just put one revision with a fresh identifier in front of the
\* new branch's enumeration; result.ret is the result of the check before that.
Prepended ==
    /\ IsCall("learner_commit")
    /\ enumerate(NEW_BRANCH)[1] = Len(commits)
    /\ Len(commits) \notin ids_of(OLD_BRANCH)

\* C6 as stated: a revision added in front of the new branch leaves the result of
\* check_old_commits_unchanged as it was (success, or the same failure).  (Stated
\* for old branches with a revision and histories without empty summaries, where
\* the lists commit_log returns have the members of the enumerations.)
C6_Original ==
    (Prepended /\ Plain(OLD_BRANCH) /\ Plain(NEW_BRANCH))
        => check_old_commits_unchanged(OLD_BRANCH, NEW_BRANCH) = result.ret

\* C6 amended: a revision added in front of the new branch keeps a check failure a
\* check failure that names the same summary of the same revision (its kind,
\* missing or modified, may change), never turns a result that is not a success
\* into a success, and keeps a success a success when enumerate(old) is not empty.
C6_Amended ==
    Prepended =>
        LET before == result.ret
            after == check_old_commits_unchanged(OLD_BRANCH, NEW_BRANCH)
        IN  /\ before.exc = "TaskCheckException" =>
                   /\ after.exc = "TaskCheckException"
                   /\ after.summary = before.summary
                   /\ after.shown = before.shown
            /\ after.exc = "" => before.exc = ""
            /\ (before.exc = "" /\ enumerate(OLD_BRANCH) # <<>>) => after.exc = ""

\* The added revision carries the summary of an old revision that the new branch
\* has lost: the check said missing before and says modified after.
C6_Witness ==
    /\ Prepended
    /\ result.ret.msg = MSG_MISSING
    /\ commits[Len(commits)].summary = result.ret.summary
    /\ check_old_commits_unchanged(OLD_BRANCH, NEW_BRANCH).msg = MSG_MODIFIED

----------------------------------------------------------------------------
(* C7 *)

\* C7: when more than one revision of enumerate(old) has its identifier missing from
\* enumerate(new), check_old_commits_unchanged raises one check failure, which names
\* the summary of the first of them in enumeration order, and commit_show was asked
\* for that revision only.
C7_FirstUnmatched ==
    (IsCall("check_old_commits_unchanged")
        /\ Cardinality(Absent(result.old, result.branch)) >= 2)
        => LET first == FirstAbsent(result.old, result.branch)
           IN  /\ result.ret.exc = "TaskCheckException"
               /\ result.ret.msg \in {MSG_MISSING, MSG_MODIFIED}
               /\ result.ret.summary = commits[first].summary
               /\ result.ret.shown = <<hexsha(first)>>

\* Two revisions with different summaries are unmatched, and the check failed.
C7_Witness ==
    /\ IsCall("check_old_commits_unchanged")
    /\ \E i, j \in Absent(result.old, result.branch) :
           i < j /\ summaries_of(result.old)[i] # summaries_of(result.old)[j]
    /\ result.ret.exc = "TaskCheckException"

----------------------------------------------------------------------------
(* C8 *)

\* C8: check_summaries succeeds iff the summaries of enumerate(R) and the expected
\* list are the same sequence from index skip onward.
C8_SummariesIff ==
    IsCall("check_summaries") =>
        (result.ret.exc = ""
            <=> slice_from(summaries_of(result.branch), result.skip)
                    = slice_from(result.expected, result.skip))

----------------------------------------------------------------------------
(* C9 *)

\* C9 as stated: with skip = len(expected), check_summaries always succeeds.
\* (Stated for the histories on which commit_log returns exactly the enumeration.)
C9_Original ==
    (IsCall("check_summaries") /\ result.skip = Len(result.expected)
        /\ Plain(result.branch))
        => result.ret.exc = ""

\* C9 amended: with skip = len(expected), check_summaries succeeds exactly when
\* commit_log returns at most skip summaries: it fails whenever enumerate(R) has more
\* than skip revisions and none of them has an empty summary, and it succeeds
\* whenever skip >= 1 and enumerate(R) has at most skip revisions.
C9_Amended ==
    (IsCall("check_summaries") /\ result.skip = Len(result.expected))
        => LET n == Len(enumerate(result.branch))
           IN  /\ result.ret.exc = ""
                      <=> Len(commit_log(result.branch, FORMAT_SUMMARY).val) <= result.skip
               /\ (n > result.skip /\ ~contains(summaries_of(result.branch), <<>>))
                      => result.ret.exc = "TaskCheckException"
               /\ (result.skip >= 1 /\ n <= result.skip) => result.ret.exc = ""

\* The enumeration is longer than the expected list and the check failed.
C9_Witness ==
    /\ IsCall("check_summaries")
    /\ result.skip = Len(result.expected)
    /\ result.skip >= 1
    /\ Len(enumerate(result.branch)) > result.skip
    /\ ~contains(summaries_of(result.branch), <<>>)
    /\ result.ret.exc = "TaskCheckException"

----------------------------------------------------------------------------
(* C10 *)

\* C10: when reset_branches has completed, every branch of the task's branch_names
\* exists locally and points at the head of its origin counterpart.
C10_ResetRestores ==
    pc = "print_task" =>
        \A k \in 1..Len(branch_names[task]) :
            LET branch_name == branch_names[task][k]
            IN  /\ branch_name \in DOMAIN refs
                /\ refs[branch_name] = refs[origin(branch_name)]

\* reset_branches of the two-branch task has completed in a repository where the
\* learner had committed; the commit is on no branch any more.
C10_Witness ==
    /\ pc = "print_task"
    /\ task = "rebase"
    /\ Len(commits) > Len(FixtureCommits)
    /\ Len(commits) \notin Reachable({refs[r] : r \in DOMAIN refs})

----------------------------------------------------------------------------
(* C11 *)

\* A run of start has ended, and the run before it was a run of start of the same
\* task with nothing done to the repository in between.
SecondRunEnded ==
    /\ pc = "exited"
    /\ command = "start"
    /\ IsCall("reset_branches")
    /\ result.task = task

\* C11: reset_branches run twice in a row leaves the references, the checked-out
\* branch and the working copy as the first run left them, and the second run ends
\* as the first did.
C11_Idempotent ==
    SecondRunEnded =>
        /\ refs = result.refs
        /\ HEAD = result.HEAD
        /\ dirty = result.dirty
        /\ exitcode = result.exitcode

\* The second run of the two-branch task has completed; the first had thrown away
\* a commit of the learner.
C11_Witness ==
    /\ SecondRunEnded
    /\ task = "rebase"
    /\ exitcode = 0
    /\ Len(commits) > Len(FixtureCommits)
    /\ Len(commits) \notin Reachable({refs[r] : r \in DOMAIN refs})

----------------------------------------------------------------------------
(* C12 *)

\* The remote-tracking references: the baseline and the origin branches.
RemoteRefs == {BASELINE} \cup {origin(b) : b \in TrackedBranches}

\* The reference is one of the branch_names of the task that is running.
Declared(r) ==
    /\ task \in TaskNames
    /\ \E k \in 1..Len(branch_names[task]) : branch_names[task][k] = r

\* C12: no step of an invocation (reset_branches, start or check) changes the
\* target of the baseline or of an origin reference, or creates, deletes or moves a
\* reference that is not one of the task's branch_names.
C12_Frame ==
    [][pc # "idle" =>
          /\ \A r \in RemoteRefs : r \in DOMAIN refs' /\ refs'[r] = refs[r]
          /\ \A r \in (DOMAIN refs \cup DOMAIN refs') :
                 ~Declared(r) => (r \in DOMAIN refs /\ r \in DOMAIN refs' /\ refs'[r] = refs[r])
      ]_vars

\* reset_branches of the one-branch task has completed and has thrown away a
\* commit of the learner, while a branch of the other task is still away from
\* its origin counterpart.
C12_Witness ==
    /\ pc = "print_task"
    /\ task = "conflict-revert"
    /\ Len(commits) > Len(FixtureCommits)
    /\ Len(commits) \notin Reachable({refs[r] : r \in DOMAIN refs})
    /\ "rebase-feature" \in DOMAIN refs
    /\ refs["rebase-feature"] # refs[origin("rebase-feature")]

----------------------------------------------------------------------------
(* C13 *)

\* C13: no step of a run of check changes the repository: the commits, the
\* references, the branch that is checked out and the working copy stay as they
\* were, whether the check passes or fails.
C13_CheckNoMutation ==
    [][(pc # "idle" /\ command = "check") =>
          (commits' = commits /\ refs' = refs /\ HEAD' = HEAD /\ dirty' = dirty)]_vars

----------------------------------------------------------------------------
(* C14 *)

\* The git calls of reset_branches that the invocation has made.
ResetCalls ==
    {i \in 1..Len(trace) :
        trace[i].name \in {"git reset --hard", "git checkout", "git branch -D", "git checkout -b"}}

\* reset_branches has run to its end in this invocation: git reset --hard, git
\* checkout main, the two calls for each branch, git checkout main, none raising.
ResetCompleted ==
    /\ task \in TaskNames
    /\ Cardinality(ResetCalls) = 2 * Len(branch_names[task]) + 3
    /\ \A i \in ResetCalls : trace[i].raised = ""

\* The instructional text of a task, as start prints it.
Instructions(taskname) == "Task: " \o taskname

\* The invocation is at, or past, the instructions of start.
InStart == command = "start" /\ (pc = "print_task" \/ contains(out, Instructions(task)))

\* The invocation is at, or past, the first statement of check.
InCheck ==
    /\ command = "check"
    /\ pc \in {"check", "print_ok"} \/ \E i \in 1..Len(trace) : trace[i].kind = "check"

\* C14 as stated: an invocation is in start or in check only after reset_branches
\* has run in it.
C14_Original == (InStart \/ InCheck) => ResetCompleted

\* C14 amended: an invocation of start prints its instructions only after
\* reset_branches has run to its end; an invocation of check makes no call of
\* reset_branches at all, its statements run on the repository as the learner
\* left it.
C14_Amended ==
    /\ InStart => ResetCompleted
    /\ (pc # "idle" /\ command = "check") => ResetCalls = {}

\* A check has passed on a branch that is not where its origin counterpart is:
\* the learner's rebase was checked, not a reset branch.
C14_Witness ==
    /\ pc = "print_ok"
    /\ task = "rebase"
    /\ ResetCalls = {}
    /\ refs["rebase-feature"] # refs[origin("rebase-feature")]

----------------------------------------------------------------------------
(* C15 *)

\* A call of reset_branches has raised: reset_branches was aborted.
ResetAborted == \E i \in ResetCalls : trace[i].raised # ""

\* C15: when start has printed the instructions of the task, reset_branches has
\* run to its end and every branch of branch_names is at its origin counterpart;
\* when reset_branches was aborted, nothing is printed on standard output, then
\* or later in the run.
C15_ResetBeforeText ==
    (pc # "idle" /\ command = "start") =>
        /\ contains(out, Instructions(task)) =>
               /\ ResetCompleted
               /\ \A k \in 1..Len(branch_names[task]) :
                      /\ branch_names[task][k] \in DOMAIN refs
                      /\ refs[branch_names[task][k]] = refs[origin(branch_names[task][k])]
        /\ ResetAborted => (out = <<>> /\ pc = "exited" /\ exitcode = 1)

\* start of the two-branch task has printed its instructions after a reset in
\* which git branch -D had no branch to delete.
C15_Witness ==
    /\ pc = "exited"
    /\ command = "start"
    /\ task = "rebase"
    /\ out = <<Instructions(task)>>
    /\ \E i \in ResetCalls : trace[i].name = "git branch -D" /\ trace[i].failed

\* reset_branches was aborted by its first git checkout main.
C15_Aborted ==
    /\ pc = "exited"
    /\ command = "start"
    /\ ResetAborted

----------------------------------------------------------------------------
(* C16 *)

\* The statements of the check that have failed.
FailedStatements == {i \in 1..Len(trace) : trace[i].failed}

\* C16: in a run of check a statement that fails is the last one run; the run then
\* ends with exit code 1 and exactly one failure report (the check failure message
\* on standard output, or the traceback of another exception on standard error);
\* and when the run has ended, OK is on standard output iff every statement of
\* the task's check was run and none failed.
C16_FailFast ==
    InCheck =>
        /\ \A i \in FailedStatements : i = Len(trace)
        /\ FailedStatements # {} =>
               /\ pc = "exited"
               /\ exitcode = 1
               /\ Len(out) + Len(err) = 1
               /\ trace[Len(trace)].raised = "TaskCheckException" <=> Len(out) = 1
               /\ ~contains(out, OK)
        /\ pc = "exited" =>
               (contains(out, OK)
                   <=> (Len(trace) = Len(checks(task)) /\ FailedStatements = {}))

\* The first statement of the check failed with a check failure and ended the
\* run, in a repository where the next statement would have failed as well.
C16_Witness ==
    /\ InCheck
    /\ pc = "exited"
    /\ Len(trace) = 1
    /\ trace[1].raised = "TaskCheckException"
    /\ call(checks(task)[2]).exc = "TaskCheckException"

\* A check has run all its statements and printed OK.
C16_Passed ==
    /\ InCheck
    /\ pc = "exited"
    /\ contains(out, OK)
    /\ task = "conflict-revert"

----------------------------------------------------------------------------
(* C17 *)

\* The invocation did what it was asked: start printed the instructions, check
\* printed OK, or the help was asked for.
Succeeded ==
    \/ command = "start" /\ contains(out, Instructions(task))
    \/ command = "check" /\ contains(out, OK)
    \/ task = NoArg /\ command = NoArg

\* The command line names a task or a command that does not exist.
UsageFailure == ~(task = NoArg /\ command = NoArg) /\ (task \notin TaskNames \/ command \notin COMMANDS)

\* A statement of the check raised a check failure.
FailedCheck == InCheck /\ \E i \in FailedStatements : trace[i].raised = "TaskCheckException"

\* C17: an invocation that succeeded exits with code 0; one that ended in a failed
\* check, an unknown task name or an unknown command exits with code 1 and has
\* printed the failure message on standard output.
C17_ExitCodes ==
    pc = "exited" =>
        /\ Succeeded => exitcode = 0
        /\ (FailedCheck \/ UsageFailure) => (exitcode = 1 /\ out # <<>>)

----------------------------------------------------------------------------
(* C18 *)

\* The git calls of the run that returned a non-zero status.
FailedCalls == {i \in 1..Len(trace) : trace[i].kind = "git" /\ trace[i].failed}

\* The calls that reset_branches makes without check=True.
Unchecked == {"git reset --hard", "git branch -D"}

C18_Escalated ==
    /\ InCheck
    /\ trace # <<>>
    /\ trace[Len(trace)].kind = "check"
    /\ trace[Len(trace)].raised = "CalledProcessError"

----------------------------------------------------------------------------
(* C19 *)

\* The revisions Revert.check compares, read off the enumeration of revert-main
\* (newest first): the revert commit D', its parent, the target D and D's parent.
Newest == enumerate(REVERT_MAIN)[1]
NewestParent == enumerate(REVERT_MAIN)[2]
Target == enumerate(REVERT_MAIN)[4]
TargetParent == enumerate(REVERT_MAIN)[5]

tree(c) == commits[c].tree

\* diff(D_parent, D) = diff(D', D'_parent)
RevertsTarget == diff_text(tree(TargetParent), tree(Target)) = diff_text(tree(Newest), tree(NewestParent))

\* The same with the second pair in the opposite order.
RevertsTargetSwapped ==
    diff_text(tree(TargetParent), tree(Target)) = diff_text(tree(NewestParent), tree(Newest))

\* C19: Revert.check passes only if diff(D_parent, D) equals diff(D', D'_parent),
\* and it passes whenever its three history checks pass and the two are equal;
\* when they are equal and the change of D is not empty, the comparison with the
\* second pair in the opposite order does not hold.
C19_RevertDirection ==
    IsCall("Revert.check") =>
        /\ result.ret.exc = "" => (Len(enumerate(REVERT_MAIN)) = REVERT_COUNT /\ RevertsTarget)
        /\ result.ret.msg = MSG_NOT_REVERT => ~RevertsTarget
        /\ (Len(enumerate(REVERT_MAIN)) >= 5 /\ RevertsTarget /\ tree(TargetParent) # tree(Target))
               => ~RevertsTargetSwapped

\* The check has accepted a revert of a target whose change is not empty.
C19_Witness ==
    /\ IsCall("Revert.check")
    /\ result.ret.exc = ""
    /\ tree(TargetParent) # tree(Target)
    /\ tree(Newest) = tree(TargetParent)

\* The check has refused a newest commit that repeats the change of the target
\* instead of undoing it.
C19_Refused ==
    /\ IsCall("Revert.check")
    /\ result.ret.msg = MSG_NOT_REVERT
    /\ RevertsTargetSwapped

----------------------------------------------------------------------------
(* C20 *)

RECURSIVE hexshas(_)
\* The identifiers of a list of commits, as commit_log returns them.
hexshas(cs) == IF cs = <<>> THEN <<>> ELSE <<hexsha(Head(cs))>> \o hexshas(Tail(cs))

\* Everything reachable from the reference, newest first.
FullHistory(ref) == NewestFirst(Reachable({refs[ref]}))

\* commit_log has returned the identifiers of a reference from which the head of
\* the baseline is not reachable, and which has a revision the baseline has not.
BaselineNotReached ==
    /\ IsCall("commit_log")
    /\ result.format = FORMAT_HASH
    /\ result.ret.exc = ""
    /\ refs[BASELINE] \notin Reachable({refs[result.branch]})
    /\ Reachable({refs[result.branch]}) \ Reachable({refs[BASELINE]}) # {}

\* C20 as stated: when the head of the baseline is not reachable from the
\* reference, commit_log returns the full history of the reference.
C20_Original ==
    BaselineNotReached => result.ret.val = hexshas(FullHistory(result.branch))

\* C20 amended: when the head of the baseline is not reachable from the reference,
\* commit_log returns, newest first, the revisions reachable from the reference
\* that are not reachable from the baseline head; that is the full history of the
\* reference exactly when the two share no revision.
C20_Amended ==
    BaselineNotReached =>
        LET above == Reachable({refs[result.branch]}) \ Reachable({refs[BASELINE]})
        IN  /\ result.ret.val = hexshas(NewestFirst(above))
            /\ result.ret.val = hexshas(FullHistory(result.branch))
                   <=> Reachable({refs[result.branch]}) \cap Reachable({refs[BASELINE]}) = {}

\* The reference left the history of the baseline below the baseline head: the
\* revisions they share are not returned.
C20_Witness ==
    /\ BaselineNotReached
    /\ Reachable({refs[result.branch]}) \cap Reachable({refs[BASELINE]}) # {}
    /\ Len(result.ret.val) < Len(FullHistory(result.branch))

\* The reference and the baseline share no revision: the full history is returned.
C20_NoSharedAncestry ==
    /\ BaselineNotReached
    /\ Reachable({refs[result.branch]}) \cap Reachable({refs[BASELINE]}) = {}
    /\ Len(result.ret.val) >= 2

----------------------------------------------------------------------------
(* C21 *)

\* C21: DeleteBranch.check fails with "The branch delete-branch-main still
\* exists." whenever the local branch delete-branch-main exists, the case where
\* it is the checked-out branch included, and passes (prints OK) only when the
\* branch does not exist.
C21_StillExists ==
    IsCall("DeleteBranch.check") =>
        /\ DELETE_BRANCH_MAIN \in DOMAIN refs =>
               result.ret = TaskCheckException(MSG_STILL_EXISTS, <<>>, <<>>)
        /\ result.ret.exc = "" => DELETE_BRANCH_MAIN \notin DOMAIN refs

----------------------------------------------------------------------------
(* C22 *)

\* The working copy has nothing to report: git status --porcelain prints nothing.
StatusEmpty == \A p \in DOMAIN dirty : dirty[p] = Clean

\* C22: Add.check ends in OK or in a TaskCheckException for every status of the
\* working copy, and for the empty status it fails with "There are no paths
\* added to the index".
C22_AddCheckEnds ==
    IsCall("Add.check") =>
        /\ result.ret.exc \in {"", "TaskCheckException"}
        /\ StatusEmpty /\ check_branches_identical(origin(SIMPLE), SIMPLE).exc = ""
               => result.ret = TaskCheckException(MSG_NOT_ADDED, <<>>, <<>>)

----------------------------------------------------------------------------
(* C23 *)

\* C23: for any reference the list commit_log returns in the summary format has
\* the length of the list it returns in the identifier format, and each position
\* of the two describes the same revision, whatever summaries are empty.
C23_Aligned ==
    IsCall("commit_log") /\ result.format = FORMAT_SUMMARY /\ result.ret.exc = "" =>
        LET ids == commit_log(result.branch, FORMAT_HASH).val
            summaries == result.ret.val
        IN  /\ Len(summaries) = Len(ids)
            /\ \A i \in 1..Len(ids) : \A c \in resolve(ids[i]) :
                   summaries[i] = commits[c].summary

----------------------------------------------------------------------------
(* C24 *)

\* The check has come to its positional accesses: it ended in OK or in a failure
\* that is raised behind them.
RevertAccessed ==
    /\ IsCall("Revert.check")
    /\ \/ result.ret.exc \notin {"TaskCheckException", "IndexError"}
       \/ result.ret.msg = MSG_NOT_REVERT

ChangeMessageAccessed ==
    /\ IsCall("ChangeMessage.check")
    /\ \/ result.ret.exc \notin {"TaskCheckException", "IndexError"}
       \/ result.ret.msg = MSG_NOT_CHANGED

\* C24: a positional access into a list of commit_log is reached only behind a
\* count check that guarantees the position exists (commits[4] of Revert.check
\* is position 5 here, main_summaries[1] of ChangeMessage.check position 2), so
\* no check ends in an IndexError, whatever the repository holds.
C24_PositionsExist ==
    /\ IsCall("Revert.check") \/ IsCall("ChangeMessage.check")
           => result.ret.exc # "IndexError"
    /\ RevertAccessed => Len(commit_log(REVERT_MAIN, FORMAT_HASH).val) >= 5
    /\ ChangeMessageAccessed =>
           Len(commit_log(CHANGE_MESSAGE_TASKS, FORMAT_SUMMARY).val) >= 2

\* The count of identifiers is as expected and the list of summaries is shorter
\* (a revision at an end of the enumeration has an empty summary): the
\* comparison of the lengths ends the check before the access.
C24_Witness ==
    /\ IsCall("ChangeMessage.check")
    /\ check_commits_count(CHANGE_MESSAGE_TASKS, CHANGE_MESSAGE_COUNT).exc = ""
    /\ Len(commit_log(CHANGE_MESSAGE_TASKS, FORMAT_SUMMARY).val) < 2
    /\ result.ret = TaskCheckException(MSG_NUMBER_DIFFERS, <<>>, <<>>)

\* Both checks come to their accesses.
C24_RevertAccessed == RevertAccessed /\ result.ret.exc = ""

C24_ChangeMessageAccessed == ChangeMessageAccessed /\ result.ret.exc = ""

----------------------------------------------------------------------------
(* C25 *)

\* reset_branches is about to run git branch -D for a branch of the task.
AtDeletion == pc = "branch_D"

====
